---- MODULE Spec2Model ----
(***************************************************************************)
(* order-notify: the order lifecycle (apps/orders/services.py), its        *)
(* transition table (apps/orders/models.py) and the Slack notification     *)
(* task (apps/orders/tasks.py), as a state machine.                        *)
(*                                                                         *)
(* The store is a relational database at READ COMMITTED: a transaction's   *)
(* writes are private until COMMIT, SELECT ... FOR UPDATE takes a row lock *)
(* that is held to the end of the transaction, and on_commit callbacks run *)
(* right after COMMIT and are dropped on rollback.                         *)
(***************************************************************************)
EXTENDS Integers, Sequences, FiniteSets, TLC

VARIABLES
    orders,       \* committed rows of the orders table: id -> row
    lock,         \* row locks: id -> set of requests holding the lock
    req,          \* per request handler: its position and transaction
    calls,        \* number of API calls started so far
    commits,      \* history: <<order_id, event>> of every committed change
    enqueued,     \* history: every job handed to the broker, in order
    queue,        \* messages waiting in the broker
    config,       \* SLACK_ENABLED / SLACK_BOT_TOKEN / SLACK_CHANNEL
    lastOutcome,  \* what the most recent task run did
    clock,        \* the time timezone.now() gives
    client        \* the read requests of an API client and their replies

vars ==
    <<orders, lock, req, calls, commits, enqueued, queue, config, lastOutcome,
      clock, client>>

---------------------------------------------------------------------------
(* Bounds of the model *)

MaxOrders == 2
MaxReqs == 2
MaxCalls == 2
MaxNumbers == 2
MaxInitOrders == 1
MaxLost == 1
MaxClock == 1
MaxPage == 2
MaxPageSize == 2
MaxListCalls == 1

OrderIds == 1..MaxOrders
UnknownId == MaxOrders + 1
Reqs == 1..MaxReqs
Numbers == 1..MaxNumbers

---------------------------------------------------------------------------
(* apps/orders/models.py *)

OrderStatus == {"pending", "confirmed", "shipped", "delivered", "cancelled"}

\* Variant: a confirmed order may be confirmed again.
VALID_TRANSITIONS_again(s) ==
    CASE s = "pending" -> {"confirmed", "cancelled"}
      [] s = "confirmed" -> {"confirmed", "shipped", "cancelled"}
      [] s = "shipped" -> {"delivered"}
      [] s = "delivered" -> {}
      [] s = "cancelled" -> {}
      [] OTHER -> {}

\* Variant: a shipped order may go back to confirmed.
VALID_TRANSITIONS_back(s) ==
    CASE s = "pending" -> {"confirmed", "cancelled"}
      [] s = "confirmed" -> {"shipped", "cancelled"}
      [] s = "shipped" -> {"delivered", "confirmed"}
      [] s = "delivered" -> {}
      [] s = "cancelled" -> {}
      [] OTHER -> {}

\* Variant: a cancelled order may be reopened.
VALID_TRANSITIONS_reopen(s) ==
    CASE s = "pending" -> {"confirmed", "cancelled"}
      [] s = "confirmed" -> {"shipped", "cancelled"}
      [] s = "shipped" -> {"delivered"}
      [] s = "delivered" -> {}
      [] s = "cancelled" -> {"pending"}
      [] OTHER -> {}

\* Variant: a pending order may be shipped at once.
VALID_TRANSITIONS_skip(s) ==
    CASE s = "pending" -> {"confirmed", "cancelled", "shipped"}
      [] s = "confirmed" -> {"shipped", "cancelled"}
      [] s = "shipped" -> {"delivered"}
      [] s = "delivered" -> {}
      [] s = "cancelled" -> {}
      [] OTHER -> {}

\* VALID_TRANSITIONS.get(status, [])
VALID_TRANSITIONS(s) ==
    CASE s = "pending" -> {"confirmed", "cancelled"}
      [] s = "confirmed" -> {"shipped", "cancelled"}
      [] s = "shipped" -> {"delivered"}
      [] s = "delivered" -> {}
      [] s = "cancelled" -> {}
      [] OTHER -> {}

\* Variant: the exists() check is gone and the first candidate is returned.
FirstFree_unchecked(cands, used, i) == cands[i]

\* The first of cands[1..5] that no stored order uses, else the unchecked cands[6].
RECURSIVE FirstFree(_, _, _)
FirstFree(cands, used, i) ==
    IF i > 5 THEN cands[6]
    ELSE IF cands[i] \notin used THEN cands[i]
    ELSE FirstFree(cands, used, i + 1)

\* generate_order_number(): every value the random draws can give.
generate_order_number(used) ==
    {FirstFree(cands, used, 1) : cands \in [1..6 -> Numbers]}

\* string.ascii_uppercase + string.digits
Alphabet ==
    << "A", "B", "C", "D", "E", "F", "G", "H", "I", "J", "K", "L", "M",
       "N", "O", "P", "Q", "R", "S", "T", "U", "V", "W", "X", "Y", "Z",
       "0", "1", "2", "3", "4", "5", "6", "7", "8", "9" >>

\* The six draws behind candidate n: the stores of the model tell the
\* candidates apart by n, and n below 36^6 gives each its own six characters.
Draws(n) == [i \in 1..6 |-> ((n \div (36 ^ (6 - i))) % 36) + 1]

\* Variant: k=5.
suffix_five(n) == [i \in 1..5 |-> Alphabet[Draws(n)[i + 1]]]

\* "".join(random.choices(string.ascii_uppercase + string.digits, k=6))
suffix(n) == [i \in 1..6 |-> Alphabet[Draws(n)[i]]]

\* f"ORD-{suffix}"
OrderNumberText(n) == <<"O", "R", "D", "-">> \o suffix(n)

---------------------------------------------------------------------------
(* apps/orders/schemas.py *)

Name(n) == [i \in 1..n |-> "x"]

GoodInput ==
    [customer_name |-> Name(1), product_name |-> Name(2), quantity |-> 3, price |-> 2999]

\* Bodies of POST /orders/: one valid, the others each break one constraint.
CreateInputs ==
    { GoodInput,
      [GoodInput EXCEPT !.quantity = 0],
      [GoodInput EXCEPT !.price = -1],
      [GoodInput EXCEPT !.customer_name = Name(0)],
      [GoodInput EXCEPT !.product_name = Name(201)] }

\* Variant: quantity and price are taken as they come.
OrderCreateSchema_names_only(d) ==
    /\ Len(d.customer_name) >= 1 /\ Len(d.customer_name) <= 100
    /\ Len(d.product_name) >= 1 /\ Len(d.product_name) <= 200

OrderCreateSchema(d) ==
    /\ Len(d.customer_name) >= 1 /\ Len(d.customer_name) <= 100
    /\ Len(d.product_name) >= 1 /\ Len(d.product_name) <= 200
    /\ d.quantity >= 1
    /\ d.price >= 0

\* Bodies of PATCH /orders/{id}/status/: the five statuses and one other word.
StatusInputs == OrderStatus \cup {"refunded"}

\* Variant: the body's status is any string.
OrderStatusUpdateSchema_any(s) == TRUE

OrderStatusUpdateSchema(s) ==
    s \in {"pending", "confirmed", "shipped", "delivered", "cancelled"}

---------------------------------------------------------------------------
(* Rows, requests, jobs *)

Row(d, number, status, created, updated) ==
    [ order_number |-> number,
      customer_name |-> d.customer_name,
      product_name |-> d.product_name,
      quantity |-> d.quantity,
      price |-> d.price,
      status |-> status,
      created_at |-> created,
      updated_at |-> updated ]

Idle ==
    [ pc |-> "idle", op |-> "none", id |-> 0, to |-> "none", data |-> GoodInput,
      number |-> 0, seen |-> "none", hooks |-> <<>>, txn |-> "none",
      enq |-> <<>>, result |-> "none", now |-> 0, was |-> 0 ]

Job(id, event) == [order_id |-> id, event |-> event]

Count(seq, x) == Cardinality({k \in 1..Len(seq) : seq[k] = x})

UsedNumbers == {orders[i].order_number : i \in DOMAIN orders}

\* Ids given to rows that are stored, were stored and changed in this run, or
\* are inserted by an open transaction: uuid7() gives no id twice.
TakenIds ==
    DOMAIN orders
      \cup {req[r].id : r \in {x \in Reqs : req[x].op = "create" /\ req[x].pc = "written"}}
      \cup {commits[k].order_id : k \in 1..Len(commits)}

FreshId == CHOOSE i \in OrderIds \ TakenIds : \A j \in OrderIds \ TakenIds : i <= j

OpenCreates == {r \in Reqs : req[r].op = "create" /\ req[r].pc \in {"begin", "generated", "written"}}

\* Ids that are taken or will be taken by the creations under way.
Reserved ==
    Cardinality(TakenIds)
      + Cardinality({r \in OpenCreates : req[r].pc \in {"begin", "generated"}})

---------------------------------------------------------------------------
(* apps/orders/services.py: transactions *)

\* Variant: the callback is called where it is registered, inside the transaction.
on_commit_eager(hooks, job) == [deferred |-> hooks, now |-> <<job>>]

\* transaction.on_commit(f): f is kept with the transaction and nothing is sent now.
on_commit(hooks, job) == [deferred |-> Append(hooks, job), now |-> <<>>]

\* Variant: the creation announces a status update.
created_callback_wrong_event(id) == Job(id, "status_updated")

\* The callback create_order registers: send_order_notification.delay(id, "created").
created_callback(id) == Job(id, "created")

\* The callback update_order_status registers.
status_updated_callback(id) == Job(id, "status_updated")

\* Variant: the callbacks run whether or not the transaction committed.
run_all_on_rollback(hooks) == hooks

\* The callbacks that survive a rollback: none.
hooks_after_rollback(hooks) == <<>>

\* Variant: a plain SELECT, which waits for nobody.
row_lock_not_waited(r, id) == TRUE

\* SELECT ... FOR UPDATE waits while another transaction holds the row.
row_lock_free(r, id) == lock[id] \subseteq {r}

\* send_order_notification.delay(...): one message per job, retries = 0.
RECURSIVE Publish(_, _, _, _)
Publish(q, n, jobs, wrote) ==
    IF jobs = <<>> THEN q
    ELSE Publish(q \cup {[jid |-> n + 1, order_id |-> Head(jobs).order_id,
                          event |-> Head(jobs).event, retries |-> 0, posts |-> 0,
                          lost |-> 0, wrote |-> wrote]},
                 n + 1, Tail(jobs), wrote)

\* The status r's transaction writes: a message keeps it beside the job, for
\* the record; the task is given order_id and event alone.
Wrote(r) == IF req[r].op = "create" THEN "pending" ELSE req[r].to

Enqueue(r, jobs) ==
    /\ queue' = Publish(queue, Len(enqueued), jobs, Wrote(r))
    /\ enqueued' = enqueued \o jobs

CanStart(r) == req[r].pc \in {"idle", "done"} /\ calls < MaxCalls

\* POST /orders/ reaches create_order only with a body the schema accepts (else 422).
BeginCreate(r, d) ==
    /\ CanStart(r)
    /\ calls' = calls + 1
    /\ IF OrderCreateSchema(d)
       THEN /\ Reserved < MaxOrders
            /\ req' = [req EXCEPT ![r] = [Idle EXCEPT !.pc = "begin", !.op = "create",
                                                       !.data = d, !.txn = "open"]]
       ELSE req' = [req EXCEPT ![r] = [Idle EXCEPT !.pc = "done", !.op = "create",
                                                   !.data = d, !.result = "ValidationError"]]
    /\ UNCHANGED <<orders, lock, commits, enqueued, queue, config, lastOutcome, clock, client>>

\* Order(...) evaluates the order_number default before the INSERT.
GenerateNumber(r) ==
    /\ req[r].pc = "begin" /\ req[r].op = "create"
    /\ \E n \in generate_order_number(UsedNumbers) :
          req' = [req EXCEPT ![r].pc = "generated", ![r].number = n]
    /\ UNCHANGED <<orders, lock, calls, commits, enqueued, queue, config, lastOutcome, clock, client>>

\* Variant: the INSERT does not wait for an open transaction that has inserted
\* the same order_number.
InsertWaits_never(r) == FALSE

\* Another open transaction has inserted the same order_number: the INSERT waits.
InsertWaits(r) ==
    \E x \in Reqs \ {r} : /\ req[x].op = "create" /\ req[x].pc = "written"
                          /\ req[x].number = req[r].number

\* Order.objects.create(...): the INSERT, then on_commit(...) and the end of the block.
Insert(r) ==
    /\ req[r].pc = "generated" /\ req[r].op = "create"
    /\ ~InsertWaits(r)
    /\ IF req[r].number \in UsedNumbers
       THEN /\ req' = [req EXCEPT ![r].pc = "done", ![r].txn = "rolledback",
                                  ![r].hooks = hooks_after_rollback(req[r].hooks),
                                  ![r].result = "IntegrityError"]
            /\ UNCHANGED <<queue, enqueued>>
       ELSE LET id == FreshId
                reg == on_commit(req[r].hooks, created_callback(id))
            IN /\ req' = [req EXCEPT ![r].pc = "written", ![r].id = id,
                                     ![r].hooks = reg.deferred, ![r].enq = reg.now,
                                     ![r].now = clock]
               /\ Enqueue(r, reg.now)
    /\ UNCHANGED <<orders, lock, calls, commits, config, lastOutcome, clock, client>>

\* PATCH /orders/{id}/status/ reaches update_order_status only with a status the
\* schema accepts (else 422).
BeginUpdate(r, id, s) ==
    /\ CanStart(r)
    /\ calls' = calls + 1
    /\ IF OrderStatusUpdateSchema(s)
       THEN req' = [req EXCEPT ![r] = [Idle EXCEPT !.pc = "begin", !.op = "update",
                                                   !.id = id, !.to = s, !.txn = "open"]]
       ELSE req' = [req EXCEPT ![r] = [Idle EXCEPT !.pc = "done", !.op = "update",
                                                   !.id = id, !.to = s,
                                                   !.result = "ValidationError"]]
    /\ UNCHANGED <<orders, lock, commits, enqueued, queue, config, lastOutcome, clock, client>>

\* Order.objects.select_for_update().get(id=order_id)
SelectForUpdate(r) ==
    /\ req[r].pc = "begin" /\ req[r].op = "update"
    /\ IF req[r].id \notin DOMAIN orders
       THEN /\ req' = [req EXCEPT ![r].pc = "done", ![r].txn = "rolledback",
                                  ![r].hooks = hooks_after_rollback(req[r].hooks),
                                  ![r].result = "NotFoundError"]
            /\ UNCHANGED lock
       ELSE /\ row_lock_free(r, req[r].id)
            /\ lock' = [lock EXCEPT ![req[r].id] = @ \cup {r}]
            /\ req' = [req EXCEPT ![r].pc = "locked",
                                  ![r].seen = orders[req[r].id].status,
                                  ![r].was = orders[req[r].id].updated_at]
    /\ UNCHANGED <<orders, calls, commits, enqueued, queue, config, lastOutcome, clock, client>>

\* Variant: the status is assigned and saved before the check, and the
\* exception is caught inside the atomic block, which then commits.
rolled_back_after_save(db, r) ==
    [db EXCEPT ![req[r].id] = [@ EXCEPT !.status = req[r].to, !.updated_at = clock]]

\* The rows once the exception has left the atomic block: as they were, the
\* update having written nothing before the check.
rolled_back(db, r) == db

\* The transition check, order.save(update_fields=...), on_commit(...).
CheckAndSave(r) ==
    /\ req[r].pc = "locked"
    /\ IF req[r].to \notin VALID_TRANSITIONS(req[r].seen)
       THEN /\ req' = [req EXCEPT ![r].pc = "done", ![r].txn = "rolledback",
                                  ![r].hooks = hooks_after_rollback(req[r].hooks),
                                  ![r].result = "InvalidStateError"]
            /\ lock' = [lock EXCEPT ![req[r].id] = @ \ {r}]
            /\ orders' = rolled_back(orders, r)
            /\ UNCHANGED <<queue, enqueued>>
       ELSE LET reg == on_commit(req[r].hooks, status_updated_callback(req[r].id))
            IN /\ req' = [req EXCEPT ![r].pc = "written",
                                     ![r].hooks = reg.deferred, ![r].enq = reg.now,
                                     ![r].now = clock]
               /\ Enqueue(r, reg.now)
               /\ UNCHANGED <<lock, orders>>
    /\ UNCHANGED <<calls, commits, config, lastOutcome, clock, client>>

\* Variant: the save writes every column, the creation time among them.
Saved_touches_created(row, to, t) ==
    [row EXCEPT !.status = to, !.updated_at = t, !.created_at = t]

\* Variant: the save writes the status and leaves updated_at as it was.
Saved_status_only(row, to, t) == [row EXCEPT !.status = to]

\* order.status = new_status; order.save(update_fields=["status", "updated_at"]):
\* auto_now puts the time of the save in updated_at; no other column is written.
Saved(row, to, t) == [row EXCEPT !.status = to, !.updated_at = t]

\* Variant: an order that becomes cancelled is taken out of the table.
Committed_drops_cancelled(r) ==
    IF req[r].op = "create"
    THEN [i \in DOMAIN orders \cup {req[r].id} |->
            IF i = req[r].id
            THEN Row(req[r].data, req[r].number, "pending", req[r].now, req[r].now)
            ELSE orders[i]]
    ELSE IF req[r].to = "cancelled"
    THEN [i \in DOMAIN orders \ {req[r].id} |-> orders[i]]
    ELSE [orders EXCEPT ![req[r].id] = Saved(@, req[r].to, req[r].now)]

\* The rows as they are once r's transaction has committed. auto_now_add and
\* auto_now give a new row the time of its save in both timestamps.
Committed(r) ==
    IF req[r].op = "create"
    THEN [i \in DOMAIN orders \cup {req[r].id} |->
            IF i = req[r].id
            THEN Row(req[r].data, req[r].number, "pending", req[r].now, req[r].now)
            ELSE orders[i]]
    ELSE [orders EXCEPT ![req[r].id] = Saved(@, req[r].to, req[r].now)]

\* Leaving the atomic block: COMMIT; the row lock is released.
Commit(r) ==
    /\ req[r].pc = "written"
    /\ orders' = Committed(r)
    /\ lock' = [i \in OrderIds |-> lock[i] \ {r}]
    /\ commits' = Append(commits, Job(req[r].id,
                           IF req[r].op = "create" THEN "created" ELSE "status_updated"))
    /\ req' = [req EXCEPT ![r].pc = "committed", ![r].txn = "committed"]
    /\ UNCHANGED <<calls, enqueued, queue, config, lastOutcome, clock, client>>

\* The on_commit callbacks run; the function returns the order.
RunOnCommit(r) ==
    /\ req[r].pc = "committed"
    /\ Enqueue(r, req[r].hooks)
    /\ req' = [req EXCEPT ![r].pc = "done", ![r].hooks = <<>>,
                          ![r].enq = req[r].enq \o req[r].hooks, ![r].result = "ok"]
    /\ UNCHANGED <<orders, lock, calls, commits, config, lastOutcome, clock, client>>

\* The database fails the COMMIT: the transaction is rolled back.
CommitFails(r) ==
    /\ req[r].pc = "written"
    /\ lock' = [i \in OrderIds |-> lock[i] \ {r}]
    /\ Enqueue(r, hooks_after_rollback(req[r].hooks))
    /\ req' = [req EXCEPT ![r].pc = "done", ![r].txn = "rolledback",
                          ![r].hooks = <<>>,
                          ![r].enq = req[r].enq \o hooks_after_rollback(req[r].hooks),
                          ![r].result = "DatabaseError"]
    /\ UNCHANGED <<orders, calls, commits, config, lastOutcome, clock, client>>

\* Variant: a callback that raises undoes the change it was registered for.
after_enqueue_failure_undone(db, r) ==
    IF req[r].op = "create"
    THEN [i \in DOMAIN db \ {req[r].id} |-> db[i]]
    ELSE IF req[r].id \in DOMAIN db
    THEN [db EXCEPT ![req[r].id].status = req[r].seen]
    ELSE db

\* The rows once an on_commit callback has raised: the callbacks run after
\* the COMMIT, outside the transaction, so the rows stay as committed.
after_enqueue_failure(db, r) == db

\* send_order_notification.delay(...) raises in the on_commit callback (the
\* broker cannot be reached): nothing is published and the exception leaves
\* the function after the COMMIT.
EnqueueFails(r) ==
    /\ req[r].pc = "committed"
    /\ req[r].hooks # <<>>
    /\ orders' = after_enqueue_failure(orders, r)
    /\ req' = [req EXCEPT ![r].pc = "done", ![r].hooks = <<>>,
                          ![r].result = "OperationalError"]
    /\ UNCHANGED <<lock, calls, commits, enqueued, queue, config, lastOutcome, clock, client>>

---------------------------------------------------------------------------
(* apps/orders/tasks.py: the notification task *)

max_retries == 3

SLACK_API_URL == "https://slack.com/api/chat.postMessage"

\* What the provider does with one POST.
Responses ==
    { "network_error", "non_2xx", "ok", "invalid_auth", "channel_not_found",
      "not_in_channel", "is_archived", "ratelimited", "no_error_field", "bad_body" }

\* Variant: is_archived forgotten.
non_retriable_short == {"invalid_auth", "channel_not_found", "not_in_channel"}

non_retriable == {"invalid_auth", "channel_not_found", "not_in_channel", "is_archived"}

\* data.get("error", "unknown")
error_code(resp) == IF resp = "no_error_field" THEN "unknown" ELSE resp

\* Variant: an exception autoretry_for does not name.
soft_failure_exception_other == "RuntimeError"

\* The exception raised for a provider error outside non_retriable.
soft_failure_exception == "HTTPError"

\* The request that was not made.
NoRequest == [url |-> "none", authorization |-> <<>>, channel |-> "none"]

\* str.upper() on the status values.
upper(status) ==
    CASE status = "pending" -> "PENDING"
      [] status = "confirmed" -> "CONFIRMED"
      [] status = "shipped" -> "SHIPPED"
      [] status = "delivered" -> "DELIVERED"
      [] status = "cancelled" -> "CANCELLED"
      [] OTHER -> "OTHER"

\* STATUS_COLORS.get(status, "#757575")
STATUS_COLORS(status) ==
    CASE status = "pending" -> "#FFA500"
      [] status = "confirmed" -> "#2196F3"
      [] status = "shipped" -> "#9C27B0"
      [] status = "delivered" -> "#4CAF50"
      [] status = "cancelled" -> "#F44336"
      [] OTHER -> "#757575"

NoPayload ==
    [channel |-> "none", title |-> "none", order_number |-> 0, status |-> "none",
     color |-> "none"]

\* Variant: the message of a creation always announces a pending order.
build_slack_payload_as_enqueued(order, event, channel) ==
    LET shown == IF event = "created" THEN "pending" ELSE order.status
    IN [ channel |-> channel,
         title |-> IF event = "created" THEN "New Order Created"
                   ELSE "Order Status Updated",
         order_number |-> order.order_number,
         status |-> upper(shown),
         color |-> STATUS_COLORS(shown) ]

\* _build_slack_payload(order, event, channel): the title follows the event, the
\* colour and the status line follow order.status as the task has just read it.
build_slack_payload(order, event, channel) ==
    [ channel |-> channel,
      title |-> IF event = "created" THEN "New Order Created"
                ELSE "Order Status Updated",
      order_number |-> order.order_number,
      status |-> upper(order.status),
      color |-> STATUS_COLORS(order.status) ]

\* What one run of the task body gives when it ends before the POST.
Ended(status, reason, lookups) ==
    [ status |-> status, reason |-> reason, raised |-> "none", posts |-> 0,
      lookups |-> lookups, order_number |-> 0, request |-> NoRequest,
      payload |-> NoPayload ]

\* Variant: only the token is required.
no_slack_config_token_only(cfg) == cfg.token = ""

\* not slack_bot_token or not slack_channel
no_slack_config(cfg) == cfg.token = "" \/ cfg.channel = ""

\* Variant: a missing order is reported as a transport error.
order_not_found_raised ==
    [Ended("raised", "order_not_found", 1) EXCEPT !.raised = "HTTPError"]

\* except Order.DoesNotExist: return {"status": "error", "reason": "order_not_found"}
order_not_found == Ended("error", "order_not_found", 1)

\* Variant: the token is sent without the Bearer scheme.
headers_no_scheme(cfg) == <<cfg.token>>

\* The Authorization header: f"Bearer {slack_bot_token}".
headers(cfg) == <<"Bearer", cfg.token>>

\* client.post(SLACK_API_URL, headers=headers, json=payload), once per run.
Posted(cfg, order, event, status, reason, raised) ==
    [ status |-> status, reason |-> reason, raised |-> raised, posts |-> 1,
      lookups |-> 1,
      order_number |-> IF status = "sent" THEN order.order_number ELSE 0,
      request |-> [url |-> SLACK_API_URL, authorization |-> headers(cfg),
                   channel |-> cfg.channel],
      payload |-> build_slack_payload(order, event, cfg.channel) ]

\* One run of the task body: the returned dict, or the exception raised.
send_order_notification(cfg, db, job, resp) ==
    IF ~cfg.enabled
    THEN Ended("skipped", "slack_disabled", 0)
    ELSE IF no_slack_config(cfg)
    THEN Ended("skipped", "no_slack_config", 0)
    ELSE IF job.order_id \notin DOMAIN db
    THEN order_not_found
    ELSE LET order == db[job.order_id] IN
         IF resp \in {"network_error", "non_2xx"}
         THEN Posted(cfg, order, job.event, "raised", resp, "HTTPError")
         ELSE IF resp = "bad_body"
         THEN Posted(cfg, order, job.event, "raised", resp, "ValueError")
         ELSE IF resp = "ok"
         THEN Posted(cfg, order, job.event, "sent", "none", "none")
         ELSE IF error_code(resp) \in non_retriable
         THEN Posted(cfg, order, job.event, "error", error_code(resp), "none")
         ELSE Posted(cfg, order, job.event, "raised", error_code(resp), soft_failure_exception)

\* Variant: autoretry_for=(Exception,).
autoretry_for_any == {"HTTPError", "ValueError", "RuntimeError"}

\* autoretry_for=(httpx.HTTPError,)
autoretry_for == {"HTTPError"}

\* Variant: one retry too many.
may_retry_once_more(retries) == retries <= max_retries

\* Task.retry with max_retries: another run while request.retries < max_retries.
may_retry(retries) == retries < max_retries

\* Variant: a run that failed is put back on the queue as it was.
after_failure_requeued(j) == {j}

\* A run that raised and is not retried: the message is acknowledged and gone.
after_failure(j) == {}

\* Variant: the worker stops consuming and the queue is purged.
remaining_purged(q, j) == {}

\* The messages of the other jobs, which a run leaves as they are.
remaining(q, j) == q \ {j}

\* Variant: the task marks the order it could not announce.
orders_after_task_marks(db, j, out) ==
    IF out.raised # "none" /\ j.order_id \in DOMAIN db
    THEN [db EXCEPT ![j.order_id].status = "cancelled"]
    ELSE db

\* The task reads the order (Order.objects.get) and writes nothing to the store.
orders_after_task(db, j, out) == db

NoOutcome ==
    [ jid |-> 0, order_id |-> 0, event |-> "none", resp |-> "none", retries |-> 0,
      posts |-> 0, status |-> "none", reason |-> "none", requeued |-> FALSE,
      lookups |-> 0, order_number |-> 0, request |-> NoRequest, lost |-> 0,
      attempt_posts |-> 0, raised |-> "none", payload |-> NoPayload ]

\* A worker takes a message and runs the task once.
RunTask(j, resp) ==
    /\ j \in queue
    /\ LET out == send_order_notification(config, orders, j, resp)
           again == out.raised \in autoretry_for /\ may_retry(j.retries)
           posts == j.posts + out.posts
       IN /\ queue' = remaining(queue, j) \cup
                        (IF again THEN {[j EXCEPT !.retries = @ + 1, !.posts = posts]}
                         ELSE IF out.raised # "none" THEN after_failure(j)
                         ELSE {})
          /\ lastOutcome' =
                [ jid |-> j.jid, order_id |-> j.order_id, event |-> j.event,
                  resp |-> IF out.posts = 0 THEN "none" ELSE resp,
                  retries |-> j.retries, posts |-> posts,
                  status |-> IF out.raised = "none" THEN out.status
                             ELSE IF again THEN "retry" ELSE "failed",
                  reason |-> out.reason, requeued |-> again,
                  lookups |-> out.lookups, order_number |-> out.order_number,
                  request |-> out.request, lost |-> j.lost,
                  attempt_posts |-> out.posts, raised |-> out.raised,
                  payload |-> out.payload ]
          /\ orders' = orders_after_task(orders, j, out)
    /\ UNCHANGED <<lock, req, calls, commits, enqueued, config, clock, client>>

\* Variant: the message was acknowledged when it was taken, and is gone.
after_worker_lost_acked(j) == {}

\* acks_late and reject_on_worker_lost: the message of a lost worker goes back
\* on the queue, with the retry count it had.
after_worker_lost(j) == {[j EXCEPT !.lost = @ + 1]}

\* The worker running j is lost: before the POST (resp = "none") or after it.
WorkerLost(j, resp) ==
    /\ j \in queue
    /\ j.lost < MaxLost
    /\ LET out == send_order_notification(config, orders, j, resp)
           posted == IF resp = "none" THEN 0 ELSE out.posts
       IN /\ queue' = remaining(queue, j) \cup
                        after_worker_lost([j EXCEPT !.posts = @ + posted])
          /\ lastOutcome' =
                [ jid |-> j.jid, order_id |-> j.order_id, event |-> j.event,
                  resp |-> IF posted = 0 THEN "none" ELSE resp,
                  retries |-> j.retries, posts |-> j.posts + posted,
                  status |-> "lost", reason |-> "none",
                  requeued |-> after_worker_lost(j) # {},
                  lookups |-> IF resp = "none" THEN 0 ELSE out.lookups,
                  order_number |-> 0,
                  request |-> IF posted = 0 THEN NoRequest ELSE out.request,
                  lost |-> j.lost + 1, attempt_posts |-> posted,
                  raised |-> "WorkerLostError",
                  payload |-> IF posted = 0 THEN NoPayload ELSE out.payload ]
    /\ UNCHANGED <<orders, lock, req, calls, commits, enqueued, config, clock, client>>

---------------------------------------------------------------------------
(* The clock *)

\* timezone.now() is read from the wall clock, which moves between two steps of
\* the program or stays where it is.
Tick ==
    /\ clock < MaxClock
    /\ clock' = clock + 1
    /\ UNCHANGED <<orders, lock, req, calls, commits, enqueued, queue, config, lastOutcome,
                   client>>

---------------------------------------------------------------------------
(* apps/orders/services.py, apps/orders/api.py: reading *)

\* status: str | None = Query(None): the parameter left out of the request.
None == "<None>"

\* What the listing can be asked for: a page, a page size, a status filter.
Pages == 0..MaxPage
PageSizes == 1..MaxPageSize
StatusFilters == {None, "", "pending", "refunded"}

NoRow == Row(GoodInput, 0, "none", 0, 0)

NoHealth == [status |-> "none", database |-> "none", redis |-> "none",
             rabbitmq |-> "none", status_code |-> 0]

NoPage == [page |-> 0, items |-> <<>>]

\* Whether the store, the cache and the broker answer when the health check asks.
NoProbe == [database |-> TRUE, redis |-> TRUE, rabbitmq |-> TRUE]

\* The client before its first read. prev is the page the client listed just
\* before this one with the same page size and filter, no transaction having
\* committed in between.
NoRead ==
    [ pc |-> "idle", op |-> "none", id |-> 0, result |-> "none",
      order |-> NoRow, page |-> 0, page_size |-> 0, status |-> None,
      total |-> 0, items |-> <<>>, at |-> 0, prev |-> NoPage, health |-> NoHealth,
      probe |-> NoProbe ]

\* The client sends one request at a time.
CanRead == client.pc # "counted"

\* get_order: Order.objects.get(id=order_id), DoesNotExist becomes NotFoundError.
GetOrder(id) ==
    /\ CanRead
    /\ client' = [NoRead EXCEPT
                    !.pc = "done", !.op = "get", !.id = id,
                    !.result = IF id \in DOMAIN orders THEN "ok" ELSE "NotFoundError",
                    !.order = IF id \in DOMAIN orders THEN orders[id] ELSE NoRow,
                    !.at = Len(commits)]
    /\ UNCHANGED <<orders, lock, req, calls, commits, enqueued, queue, config, lastOutcome,
                   clock>>

\* page: int = Query(1, ge=1), page_size: int = Query(20, ge=1, le=100)
list_orders_query(page, page_size) == page >= 1 /\ page_size >= 1 /\ page_size <= 100

\* `if status:` is false for None and for the empty string.
truthy(status) == status \notin {None, ""}

\* Variant: the filter is not applied.
filter_all(db, status) == DOMAIN db

\* qs = Order.objects.all(), then qs.filter(status=status) when a filter is given.
filter(db, status) ==
    IF truthy(status) THEN {i \in DOMAIN db : db[i].status = status} ELSE DOMAIN db

\* Variant: the first page starts after page_size rows.
offset_from_page(page, page_size) == page * page_size

\* offset = (page - 1) * page_size
offset(page, page_size) == (page - 1) * page_size

\* Meta.ordering = ["-created_at"]: the orders the database may give the rows in.
\* Rows with the same created_at come in any order, chosen query by query.
ordering(db, ids) ==
    { f \in [1..Cardinality(ids) -> ids] :
        /\ \A i, j \in 1..Cardinality(ids) : i # j => f[i] # f[j]
        /\ \A i, j \in 1..Cardinality(ids) :
              i < j => db[f[i]].created_at >= db[f[j]].created_at }

\* qs[offset : offset + page_size]
slice(rows, from, n) ==
    IF from >= Len(rows) THEN <<>>
    ELSE SubSeq(rows, from + 1, IF from + n <= Len(rows) THEN from + n ELSE Len(rows))

\* The page listed before, when a listing with these parameters starts now.
Previous(page_size, status) ==
    IF /\ client.op = "list" /\ client.result = "ok"
       /\ client.page_size = page_size /\ client.status = status
       /\ client.at = Len(commits)
    THEN [page |-> client.page, items |-> client.items] ELSE NoPage

\* get_orders up to total = qs.count(), the first of its two queries.
ListCount(page, page_size, status) ==
    /\ CanRead
    /\ LET asked == [NoRead EXCEPT !.op = "list",
                                   !.page = page, !.page_size = page_size,
                                   !.status = status, !.at = Len(commits)]
       IN client' =
            IF ~list_orders_query(page, page_size)
            THEN [asked EXCEPT !.pc = "done", !.result = "ValidationError"]
            ELSE IF truthy(status) /\ status \notin OrderStatus
            THEN [asked EXCEPT !.pc = "done", !.result = "AppValidationError"]
            ELSE [asked EXCEPT !.pc = "counted",
                               !.total = Cardinality(filter(orders, status)),
                               !.prev = Previous(page_size, status)]
    /\ UNCHANGED <<orders, lock, req, calls, commits, enqueued, queue, config, lastOutcome,
                   clock>>

\* orders = list(qs[offset : offset + page_size]), the second query, and the return.
ListSlice ==
    /\ client.pc = "counted"
    /\ \E rows \in ordering(orders, filter(orders, client.status)) :
          LET items == slice(rows, offset(client.page, client.page_size), client.page_size)
          IN client' = [client EXCEPT
                          !.pc = "done", !.result = "ok", !.items = items,
                          !.prev = IF client.at = Len(commits) THEN @ ELSE NoPage,
                          !.at = IF client.at = Len(commits) THEN @ ELSE 0 - 1]
    /\ UNCHANGED <<orders, lock, req, calls, commits, enqueued, queue, config, lastOutcome,
                   clock>>

---------------------------------------------------------------------------
(* apps/core/api.py: the health check *)

\* Variant: the checks after a failed one are not made.
check_skipped(health, key, ok) ==
    IF health.status = "unhealthy" THEN health
    ELSE IF ok THEN health ELSE [health EXCEPT ![key] = "error", !.status = "unhealthy"]

\* One try/except block: a check that fails marks its own entry and the status.
check(health, key, ok) ==
    IF ok THEN health ELSE [health EXCEPT ![key] = "error", !.status = "unhealthy"]

\* health_check, given whether the store, the cache and the broker can be reached.
health_check(database, redis, rabbitmq) ==
    LET health == [status |-> "healthy", database |-> "ok", redis |-> "ok",
                   rabbitmq |-> "ok"]
        checked == check(check(check(health, "database", database), "redis", redis),
                         "rabbitmq", rabbitmq)
    IN [ status |-> checked.status, database |-> checked.database,
         redis |-> checked.redis, rabbitmq |-> checked.rabbitmq,
         status_code |-> IF checked.status = "healthy" THEN 200 ELSE 503 ]

\* GET /health/
HealthCheck(database, redis, rabbitmq) ==
    /\ CanRead
    /\ client' = [NoRead EXCEPT
                    !.pc = "done", !.op = "health",
                    !.result = "ok", !.id = 0,
                    !.health = health_check(database, redis, rabbitmq),
                    !.probe = [database |-> database, redis |-> redis,
                               rabbitmq |-> rabbitmq]]
    /\ UNCHANGED <<orders, lock, req, calls, commits, enqueued, queue, config, lastOutcome,
                   clock>>

---------------------------------------------------------------------------
(* config/urls.py: the exception handlers; apps/orders/api.py: the status codes *)

handle_not_found == [status |-> 404, code |-> "NOT_FOUND"]

handle_validation_error == [status |-> 400, code |-> "VALIDATION_ERROR"]

\* Variant: the conflict is answered as a bad request.
handle_invalid_state_400 == [status |-> 400, code |-> "INVALID_STATE"]

handle_invalid_state == [status |-> 409, code |-> "INVALID_STATE"]

handle_integrity_error == [status |-> 400, code |-> "INTEGRITY_ERROR"]

handle_database_error == [status |-> 500, code |-> "DATABASE_ERROR"]

\* A body or a query the declared types reject: django-ninja answers 422.
unprocessable == [status |-> 422, code |-> "none"]

\* The status code the route declares for its result.
success(op) == [status |-> IF op = "create" THEN 201 ELSE 200, code |-> "none"]

\* The HTTP answer to a request of kind op that ended with result.
Response(op, result) ==
    CASE result = "ok" -> success(op)
      [] result = "ValidationError" -> unprocessable
      [] result = "NotFoundError" -> handle_not_found
      [] result = "AppValidationError" -> handle_validation_error
      [] result = "InvalidStateError" -> handle_invalid_state
      [] result = "IntegrityError" -> handle_integrity_error
      [] result = "DatabaseError" -> handle_database_error
      [] OTHER -> [status |-> 0, code |-> "none"]

---------------------------------------------------------------------------
(* apps/orders/admin.py: the admin site *)

\* The change form of OrderAdmin: status is an editable field with the five choices.
AdminChange(id, s) ==
    /\ id \in DOMAIN orders
    /\ lock[id] = {}
    /\ orders[id].status # s
    /\ orders' = [orders EXCEPT ![id] = Saved(@, s, clock)]
    /\ UNCHANGED <<lock, req, calls, commits, enqueued, queue, config, lastOutcome, clock, client>>

\* The delete view of OrderAdmin (ModelAdmin's default): the row is removed. The
\* DELETE waits for a transaction that holds the row.
AdminDelete(id) ==
    /\ id \in DOMAIN orders
    /\ lock[id] = {}
    /\ orders' = [i \in DOMAIN orders \ {id} |-> orders[i]]
    /\ UNCHANGED <<lock, req, calls, commits, enqueued, queue, config, lastOutcome, clock, client>>

---------------------------------------------------------------------------
(* The system *)

Configs ==
    { [enabled |-> TRUE, token |-> "xoxb", channel |-> "#orders"],
      [enabled |-> FALSE, token |-> "", channel |-> ""],
      [enabled |-> TRUE, token |-> "", channel |-> "#orders"],
      [enabled |-> TRUE, token |-> "xoxb", channel |-> ""] }

\* Stores the service can have built before the run starts: ids 1..n, distinct
\* order numbers, any status; their notification jobs have all been handled.
InitStores ==
    UNION { { f \in [1..n -> [order_number : Numbers, status : OrderStatus]] :
                \A i, j \in 1..n : i # j => f[i].order_number # f[j].order_number }
            : n \in 0..MaxInitOrders }

Init ==
    /\ \E f \in InitStores :
          orders = [i \in DOMAIN f |-> Row(GoodInput, f[i].order_number, f[i].status, 0, 0)]
    /\ lock = [i \in OrderIds |-> {}]
    /\ req = [r \in Reqs |-> Idle]
    /\ calls = 0
    /\ commits = <<>>
    /\ enqueued = <<>>
    /\ queue = {}
    /\ config \in Configs
    /\ lastOutcome = NoOutcome
    /\ clock = 0
    /\ client = NoRead

\* One request handler of the API.
Handler(r) ==
    \/ \E d \in CreateInputs : BeginCreate(r, d)
    \/ GenerateNumber(r)
    \/ Insert(r)
    \/ \E id \in OrderIds \cup {UnknownId}, s \in StatusInputs : BeginUpdate(r, id, s)
    \/ SelectForUpdate(r)
    \/ CheckAndSave(r)
    \/ Commit(r)
    \/ RunOnCommit(r)

Service == \E r \in Reqs : Handler(r)

Worker == \E j \in queue, resp \in Responses : RunTask(j, resp)

Admin == \E id \in OrderIds, s \in OrderStatus : AdminChange(id, s)

Faults == \E r \in Reqs : CommitFails(r)

Deletes == \E id \in OrderIds : AdminDelete(id)

\* The worker is lost before the POST, or after a POST that the provider accepted.
Lost == \E j \in queue, resp \in {"none", "ok"} : WorkerLost(j, resp)

Next == Service \/ Worker

\* The whole system: the API, the store, the broker and the worker.
Spec == Init /\ [][Next]_vars

\* The specifications in which nothing reads the notification settings (the
\* service, the admin site, the reads) or in which every claim is about a
\* configured worker start with the one full configuration.
InitRead == Init /\ config = [enabled |-> TRUE, token |-> "xoxb", channel |-> "#orders"]

\* The API and the store alone. The worker writes only queue and lastOutcome,
\* which no service action reads, so the service's variables behave as in Spec.
SpecService == InitRead /\ [][Service]_vars

\* The service with a database that may fail a COMMIT.
NextFaults == Service \/ Faults

SpecFaults == InitRead /\ [][NextFaults]_vars

BrokerFaults == \E r \in Reqs : EnqueueFails(r)

\* The service with a broker that may refuse a publish.
NextBroker == Service \/ BrokerFaults

SpecBroker == InitRead /\ [][NextBroker]_vars

\* The service together with the admin site.
NextAdmin == Service \/ Admin

SpecAdmin == InitRead /\ [][NextAdmin]_vars

\* A worker whose POSTs the provider accepts.
AcceptedWorker == \E j \in queue : RunTask(j, "ok")

\* A worker whose POSTs the provider accepts, beside one request handler and
\* the admin site's delete view: the runs that skip, that find no order and
\* that are sent.
NextNotify == Handler(1) \/ AcceptedWorker \/ Deletes

SpecNotify == Init /\ [][NextNotify]_vars

\* The worker beside one request handler. A worker that is up takes the
\* messages that wait.
NextWorker == Handler(1) \/ Worker

SpecWorker == Init /\ [][NextWorker]_vars /\ WF_vars(Worker)

\* One response of each kind the task tells apart: accepted, a transport
\* failure, a code that ends the job, a body that raises outside httpx.
DeliveryResponses == {"ok", "network_error", "invalid_auth", "bad_body"}

DeliveryWorker == \E j \in queue, resp \in DeliveryResponses : RunTask(j, resp)

\* The worker that meets one response of each kind, beside one request
\* handler, under every configuration. A worker that is up takes the messages
\* that wait.
NextRetry == Handler(1) \/ DeliveryWorker

SpecRetry == Init /\ [][NextRetry]_vars /\ WF_vars(DeliveryWorker)

\* The worker beside one request handler, with workers that may be lost while
\* they run a job. A worker that is up takes the messages that wait.
NextDelivery == Handler(1) \/ DeliveryWorker \/ Lost

SpecDelivery == InitRead /\ [][NextDelivery]_vars /\ WF_vars(DeliveryWorker)

\* GET /orders/{id}/ from an API client.
Gets == \E id \in OrderIds \cup {UnknownId} : GetOrder(id)

\* GET /orders/ from an API client.
Lists ==
    \/ \E page \in Pages, page_size \in PageSizes, status \in StatusFilters :
          ListCount(page, page_size, status)
    \/ ListSlice

Health == \E database, redis, rabbitmq \in BOOLEAN : HealthCheck(database, redis, rabbitmq)

\* One request handler that writes beside a client that reads orders and asks
\* for the health of the service, with the clock.
NextRead == Handler(1) \/ Tick \/ Gets \/ Health

SpecRead == InitRead /\ [][NextRead]_vars

\* One request handler that writes beside a client that lists, with the clock.
\* One writing call is enough to add a second order to a stored one and to
\* commit between the two queries of a listing.
NextList == (Handler(1) /\ calls' <= MaxListCalls) \/ Tick \/ Lists

SpecList == InitRead /\ [][NextList]_vars

\* The worker beside one request handler and the admin site's change form,
\* with notifications configured.
NextAdminNotify == Handler(1) \/ AcceptedWorker \/ Admin

SpecAdminNotify == InitRead /\ [][NextAdminNotify]_vars

---------------------------------------------------------------------------
(* Properties *)

\* The transition table as section 4.2 of the specification gives it.
TransitionTable ==
    [ pending |-> {"confirmed", "cancelled"},
      confirmed |-> {"shipped", "cancelled"},
      shipped |-> {"delivered"},
      delivered |-> {},
      cancelled |-> {} ]

Terminal == {"delivered", "cancelled"}

Updating(r) == req[r].op = "update" /\ req[r].pc \in {"locked", "written"}

\* C1: for an existing order with status `from` and a requested status `to` among
\* the five recognised values, update_order_status succeeds and sets the order's
\* status to `to` if and only if `to` is in the table entry for `from`; otherwise
\* it fails with InvalidStateError. The step that decides is taken against the
\* status the store holds at that moment; a call that passes it commits `to` and
\* returns ok.
C1_UpdateFollowsTable ==
    [][\A r \in Reqs :
          /\ (req[r].op = "update" /\ req[r].pc = "locked" /\ req'[r] # req[r]) =>
                IF req[r].to \in TransitionTable[orders[req[r].id].status]
                THEN req'[r].pc = "written" /\ req'[r].result = "none"
                ELSE /\ req'[r].pc = "done"
                     /\ req'[r].result = "InvalidStateError"
                     /\ orders' = orders
          /\ (req[r].op = "update" /\ req[r].pc = "written" /\ req'[r] # req[r]) =>
                /\ req'[r].pc = "committed"
                /\ orders'[req[r].id].status = req[r].to
          /\ (req[r].op = "update" /\ req[r].pc = "committed" /\ req'[r] # req[r]) =>
                req'[r].pc = "done" /\ req'[r].result = "ok"
      ]_vars

\* One call has succeeded and another has been refused, each on a stored order.
C1_Witness ==
    \E r1, r2 \in Reqs :
        /\ req[r1].op = "update" /\ req[r1].pc = "done" /\ req[r1].result = "ok"
        /\ orders[req[r1].id].status = req[r1].to
        /\ req[r2].op = "update" /\ req[r2].pc = "done"
        /\ req[r2].result = "InvalidStateError"

\* C2: concurrent update_order_status calls for the same order never interleave
\* their lock / check / write / commit sections, and each validates against the
\* status committed by the call before it: no two calls are between their lock
\* and their commit on the same order, and the status a call has read under the
\* lock is the status the store holds until that call commits.
C2_UpdatesSerialize ==
    /\ \A r1, r2 \in Reqs :
          (r1 # r2 /\ Updating(r1) /\ Updating(r2)) => req[r1].id # req[r2].id
    /\ \A r \in Reqs : Updating(r) => req[r].seen = orders[req[r].id].status

\* pending -> confirmed is written and not yet committed while pending -> cancelled
\* for the same order has started and waits for the row.
C2_Witness ==
    \E r1, r2 \in Reqs :
        /\ r1 # r2 /\ req[r1].id = req[r2].id
        /\ req[r1].op = "update" /\ req[r1].pc = "written"
        /\ req[r1].seen = "pending" /\ req[r1].to = "confirmed"
        /\ req[r2].op = "update" /\ req[r2].pc = "begin" /\ req[r2].to = "cancelled"

EventOf(op) == IF op = "create" THEN "created" ELSE "status_updated"

JobKinds == {Job(id, e) : id \in OrderIds, e \in {"created", "status_updated"}}

\* Calls that have committed and have not yet run their callback.
Committing(x) ==
    {r \in Reqs : req[r].pc = "committed" /\ Job(req[r].id, EventOf(req[r].op)) = x}

Failures ==
    {"ValidationError", "NotFoundError", "InvalidStateError", "IntegrityError", "DatabaseError"}

\* C4: no job is enqueued by a call that fails with a validation error, with
\* NotFoundError, with InvalidStateError, or whose transaction rolls back.
C4_NoJobOnFailure ==
    /\ \A r \in Reqs :
          (req[r].result \in Failures \/ req[r].txn = "rolledback") => req[r].enq = <<>>
    /\ Len(enqueued) <= Len(commits)

\* A transaction was rolled back after its callback was registered, and another
\* call was refused.
C4_Witness ==
    \E r1, r2 \in Reqs :
        /\ req[r1].result = "DatabaseError" /\ req[r1].txn = "rolledback"
        /\ req[r2].result \in {"NotFoundError", "InvalidStateError", "ValidationError"}

\* C5: a job is enqueued only after the transaction that inserted the order or
\* changed its status has committed: the call that enqueued it has committed,
\* the job's order is in the committed store, and there are never more jobs for
\* an order and event than committed changes of that kind.
C5_EnqueueAfterCommit ==
    /\ \A r \in Reqs : req[r].enq # <<>> => req[r].txn = "committed"
    /\ \A k \in 1..Len(enqueued) : enqueued[k].order_id \in DOMAIN orders
    /\ \A x \in JobKinds : Count(enqueued, x) <= Count(commits, x)

\* A creation has returned and its job is with the broker.
C5_Witness ==
    \E r \in Reqs :
        /\ req[r].op = "create" /\ req[r].pc = "done" /\ req[r].result = "ok"
        /\ \E j \in queue : j.order_id = req[r].id /\ j.event = "created"

C7_StatusOnlyAlongTable ==
    [][\A id \in DOMAIN orders' :
          IF id \in DOMAIN orders
          THEN \/ orders'[id].status = orders[id].status
               \/ orders'[id].status \in TransitionTable[orders[id].status]
          ELSE orders'[id].status = "pending"
      ]_vars

TransportFailures == {"network_error", "non_2xx"}

InQueue(jid) == \E j \in queue : j.jid = jid

\* The bounded retry policy, as the claims state it: a failed attempt is retried
\* while fewer than 3 retries were made, and fails the job after the third.
RetriedOrFailed ==
    IF lastOutcome.retries < 3
    THEN /\ lastOutcome.status = "retry" /\ lastOutcome.requeued
         /\ \E j \in queue : /\ j.jid = lastOutcome.jid
                             /\ j.retries = lastOutcome.retries + 1
                             /\ j.order_id = lastOutcome.order_id
                             /\ j.event = lastOutcome.event
    ELSE /\ lastOutcome.status = "failed" /\ ~lastOutcome.requeued
         /\ ~InQueue(lastOutcome.jid)

\* C8: when the outbound call of a job fails at the transport level, the job is
\* retried, at most 3 times (at most 4 outbound attempts per job); when the last
\* retry also fails the job is marked failed and is not requeued.
C8_TransportRetries ==
    /\ lastOutcome.resp \in TransportFailures => RetriedOrFailed
    /\ lastOutcome.retries <= 3 /\ lastOutcome.posts <= 4
    /\ \A j \in queue : j.retries <= 3 /\ j.posts <= 3

\* A job has failed on its fourth outbound attempt.
C8_Witness ==
    /\ lastOutcome.resp \in TransportFailures
    /\ lastOutcome.status = "failed"
    /\ lastOutcome.retries = 3 /\ lastOutcome.posts = 4

\* C9: when the provider answers ok=false with invalid_auth, channel_not_found,
\* not_in_channel or is_archived, the job ends at once with status "error" and
\* that code as the reason, and is not retried.
C9_NonRetriableIsTerminal ==
    lastOutcome.resp \in {"invalid_auth", "channel_not_found", "not_in_channel", "is_archived"} =>
        /\ lastOutcome.status = "error"
        /\ lastOutcome.reason = lastOutcome.resp
        /\ ~lastOutcome.requeued
        /\ ~InQueue(lastOutcome.jid)

\* The provider has answered a first attempt with channel_not_found.
C9_Witness ==
    /\ lastOutcome.resp = "channel_not_found"
    /\ lastOutcome.status = "error"
    /\ lastOutcome.retries = 0 /\ lastOutcome.posts = 1

\* C10: when the provider answers ok not true with any other error code, or with
\* no error field ("unknown"), the attempt is retriable and follows the same
\* bounded retry policy as a transport failure.
C10_OtherCodesRetry ==
    lastOutcome.resp \in {"ratelimited", "no_error_field"} =>
        /\ RetriedOrFailed
        /\ lastOutcome.reason = IF lastOutcome.resp = "no_error_field" THEN "unknown"
                                ELSE lastOutcome.resp

\* A response without an error field has been retried, and one has failed a job
\* on its last attempt.
C10_Witness ==
    /\ lastOutcome.resp = "no_error_field"
    /\ lastOutcome.reason = "unknown"
    /\ lastOutcome.status = "failed" /\ lastOutcome.retries = 3

ConfigOK == config.enabled /\ config.token # "" /\ config.channel # ""

\* The job whose run has just ended without a retry.
JobEnded(jid) == lastOutcome.jid = jid /\ ~InQueue(jid)

\* C11: if notifications are disabled, or the bot token or the channel is
\* missing, a run returns "skipped" without a POST and without looking up the
\* order, whether or not the order exists; the disabled check comes first (its
\* reason wins when the credentials are missing too), then the credentials
\* check, then the lookup.
C11_SkippedBeforeLookup ==
    (lastOutcome.jid # 0 /\ ~ConfigOK) =>
        /\ lastOutcome.status = "skipped"
        /\ lastOutcome.reason = IF ~config.enabled THEN "slack_disabled"
                                 ELSE "no_slack_config"
        /\ lastOutcome.attempt_posts = 0 /\ lastOutcome.posts = 0
        /\ lastOutcome.lookups = 0
        /\ lastOutcome.resp = "none"
        /\ ~lastOutcome.requeued /\ ~InQueue(lastOutcome.jid)

\* With the channel missing, a job whose order has been deleted was skipped.
C11_Witness ==
    /\ config.enabled /\ config.token # "" /\ config.channel = ""
    /\ lastOutcome.status = "skipped" /\ lastOutcome.reason = "no_slack_config"
    /\ lastOutcome.order_id \notin DOMAIN orders

\* C12: if notifications are enabled and configured and the order id of a job
\* matches no stored order when the job runs, the run returns status "error",
\* reason "order_not_found", makes no POST, and the job is not retried.
C12_OrderNotFound ==
    [][\A j \in queue :
          (j \notin queue' /\ ConfigOK /\ j.order_id \notin DOMAIN orders) =>
              /\ lastOutcome'.jid = j.jid
              /\ lastOutcome'.status = "error"
              /\ lastOutcome'.reason = "order_not_found"
              /\ lastOutcome'.attempt_posts = 0 /\ lastOutcome'.posts = j.posts
              /\ ~lastOutcome'.requeued
              /\ \A k \in queue' : k.jid # j.jid
      ]_vars

\* The job of a creation has run after the order was deleted.
C12_Witness ==
    /\ ConfigOK
    /\ lastOutcome.event = "created"
    /\ lastOutcome.status = "error" /\ lastOutcome.reason = "order_not_found"
    /\ lastOutcome.order_id \notin DOMAIN orders
    /\ ~InQueue(lastOutcome.jid)

\* C13: when the provider answers 2xx with ok=true, the run returns status
\* "sent" carrying the order's order_number, after exactly one POST for that
\* attempt, made to the provider URL with "Bearer <token>" as Authorization and
\* the configured channel in the payload.
C13_SentCarriesOrderNumber ==
    [][\A j \in queue :
          (j \notin queue' /\ lastOutcome'.jid = j.jid /\ lastOutcome'.resp = "ok") =>
              /\ j.order_id \in DOMAIN orders
              /\ lastOutcome'.status = "sent"
              /\ lastOutcome'.order_number = orders[j.order_id].order_number
              /\ lastOutcome'.attempt_posts = 1 /\ lastOutcome'.posts = j.posts + 1
              /\ lastOutcome'.request =
                    [ url |-> "https://slack.com/api/chat.postMessage",
                      authorization |-> <<"Bearer", config.token>>,
                      channel |-> config.channel ]
              /\ config.token # "" /\ config.channel # ""
              /\ \A k \in queue' : k.jid # j.jid
      ]_vars

\* A status update has been announced on the first attempt.
C13_Witness ==
    /\ lastOutcome.event = "status_updated"
    /\ lastOutcome.status = "sent" /\ lastOutcome.resp = "ok"
    /\ lastOutcome.retries = 0 /\ lastOutcome.posts = 1
    /\ lastOutcome.order_id \in DOMAIN orders
    /\ lastOutcome.order_number = orders[lastOutcome.order_id].order_number

\* At most one job per API call.
JobIds == 1..MaxCalls

\* C14 as stated: a job that has ended has reached sent, skipped or error, or
\* has failed after exhausting its retries.
C14_EndsOrExhausts ==
    (lastOutcome.jid # 0 /\ ~InQueue(lastOutcome.jid)) =>
        \/ lastOutcome.status \in {"sent", "skipped", "error"}
        \/ lastOutcome.status = "failed" /\ lastOutcome.retries = 3

\* C14, amended: every job that is picked up terminates: it reaches sent,
\* skipped or error, or it fails, after exhausting its retries or at once on an
\* exception outside the transport error family; no job is retried more than 3
\* times.
C14_EveryJobEnds ==
    /\ [](\A j \in queue : j.retries <= 3)
    /\ \A jid \in JobIds :
          InQueue(jid) ~>
              ( /\ JobEnded(jid)
                /\ \/ lastOutcome.status \in {"sent", "skipped", "error"}
                   \/ /\ lastOutcome.status = "failed"
                      /\ lastOutcome.retries = 3 \/ lastOutcome.raised # "HTTPError" )

\* A job has failed on its first run, on a 2xx response whose body is no JSON.
C14_Witness ==
    /\ lastOutcome.status = "failed" /\ lastOutcome.retries = 0
    /\ lastOutcome.resp = "bad_body" /\ lastOutcome.raised = "ValueError"
    /\ ~InQueue(lastOutcome.jid)

\* C15: delivery is at-least-once: every job enqueued while notifications are
\* enabled and configured, and whose order exists, leads to a POST that the
\* provider accepts, unless the provider refuses the attempts the retry policy
\* permits and the job ends with error or failed on a refused attempt; a job
\* whose worker is lost is redelivered and not dropped.
C15_AtLeastOnce ==
    \A jid \in JobIds :
        (InQueue(jid) /\ ConfigOK) ~>
            ( /\ lastOutcome.jid = jid
              /\ \/ lastOutcome.resp = "ok"
                 \/ /\ JobEnded(jid)
                    /\ lastOutcome.status \in {"error", "failed"}
                    /\ lastOutcome.attempt_posts = 1
                    /\ lastOutcome.resp \in Responses \ {"ok"} )

\* A job whose worker was lost before the POST has been delivered again and sent.
C15_Witness ==
    /\ ConfigOK
    /\ lastOutcome.status = "sent" /\ lastOutcome.resp = "ok"
    /\ lastOutcome.lost = 1 /\ lastOutcome.posts = 1
    /\ ~InQueue(lastOutcome.jid)

\* C16: once a run has returned sent, skipped or error, the job is final: its
\* message is gone and no message of that job ever comes back (a message in the
\* queue is one that was there, or belongs to a job enqueued in this step); the
\* run of one job leaves the messages of every other job as they were.
C16_OutcomeIsFinal ==
    [][/\ \A j \in queue :
             j \notin queue' =>
                 /\ lastOutcome'.jid = j.jid
                 /\ lastOutcome'.status \in {"sent", "skipped", "error"} =>
                        \A k \in queue' : k.jid # j.jid
                 /\ \A k \in queue \ {j} : k \in queue'
       /\ \A k \in queue' :
             \/ \E j \in queue : j.jid = k.jid
             \/ k.jid > Len(enqueued)
      ]_vars

\* One job has ended with error while another still waits for its first run.
C16_Witness ==
    /\ lastOutcome.status = "error" /\ ~InQueue(lastOutcome.jid)
    /\ \E k \in queue : k.jid # lastOutcome.jid /\ k.retries = 0

\* What the API callers and the order store see.
ServiceView == <<orders, lock, req, calls, commits, enqueued>>

\* C17: what create_order / update_order_status return and what the store holds
\* do not depend on notification delivery: a run of a job, whatever the provider
\* does, changes nothing of what the callers and the store see; a call that has
\* committed can always return, and it returns ok while its job still waits for
\* its first run.
C17_DeliveryDoesNotReachCaller ==
    [][/\ (\E j \in queue : j \notin queue') => ServiceView' = ServiceView
       /\ \A r \in Reqs :
             /\ req[r].pc = "committed" => ENABLED RunOnCommit(r)
             /\ (req[r].pc = "committed" /\ req'[r].pc = "done") =>
                   /\ req'[r].result = "ok"
                   /\ orders' = orders
                   /\ \E k \in queue' : /\ k.order_id = req[r].id
                                         /\ k.event = EventOf(req[r].op)
                                         /\ k.retries = 0 /\ k.posts = 0
      ]_vars

\* A creation has returned ok and its order is stored, while the job of that
\* creation has failed after its last retry.
C17_Witness ==
    \E r \in Reqs :
        /\ req[r].op = "create" /\ req[r].pc = "done" /\ req[r].result = "ok"
        /\ req[r].id \in DOMAIN orders
        /\ lastOutcome.order_id = req[r].id /\ lastOutcome.event = "created"
        /\ lastOutcome.status = "failed" /\ lastOutcome.retries = 3

Chars ==
    { "A", "B", "C", "D", "E", "F", "G", "H", "I", "J", "K", "L", "M",
      "N", "O", "P", "Q", "R", "S", "T", "U", "V", "W", "X", "Y", "Z",
      "0", "1", "2", "3", "4", "5", "6", "7", "8", "9" }

\* ORD-[A-Z0-9]{6}
WellFormed(t) ==
    /\ Len(t) = 10
    /\ SubSeq(t, 1, 4) = <<"O", "R", "D", "-">>
    /\ \A i \in 5..10 : t[i] \in Chars

\* C18: for a valid creation input, the order create_order persists and returns
\* has status pending, has the customer_name, product_name, quantity and price
\* of the input, and has an order_number "ORD-" followed by exactly 6
\* characters of A-Z and 0-9; the call then returns ok with the order stored.
C18_CreatedOrder ==
    [][\A r \in Reqs :
          /\ (req[r].op = "create" /\ req[r].pc = "written" /\ req'[r].pc = "committed") =>
                /\ OrderCreateSchema(req[r].data)
                /\ req[r].id \notin DOMAIN orders /\ req[r].id \in DOMAIN orders'
                /\ LET o == orders'[req[r].id]
                   IN /\ o.status = "pending"
                      /\ o.customer_name = req[r].data.customer_name
                      /\ o.product_name = req[r].data.product_name
                      /\ o.quantity = req[r].data.quantity
                      /\ o.price = req[r].data.price
                      /\ WellFormed(OrderNumberText(o.order_number))
          /\ (req[r].op = "create" /\ req[r].pc = "committed" /\ req'[r].pc = "done") =>
                /\ req'[r].result = "ok"
                /\ req[r].id \in DOMAIN orders'
                /\ \A f \in {"customer_name", "product_name", "quantity", "price"} :
                      orders'[req[r].id][f] = req[r].data[f]
      ]_vars

\* Two creations have returned and both orders are stored as pending.
C18_Witness ==
    /\ \A r \in Reqs : req[r].op = "create" /\ req[r].pc = "done" /\ req[r].result = "ok"
    /\ \A r \in Reqs : req[r].id \in DOMAIN orders /\ orders[req[r].id].status = "pending"
    /\ \A r \in Reqs : orders[req[r].id].quantity = 3 /\ orders[req[r].id].price = 2999
    /\ req[1].id # req[2].id

UniqueNumbers ==
    \A i, j \in DOMAIN orders : i # j => orders[i].order_number # orders[j].order_number

\* C19: in every reachable state no two stored orders share an order_number,
\* and the order_number of a stored order never changes, across
\* update_order_status and every other operation, the admin change form
\* included.
C19_NumberUniqueAndFixed ==
    /\ UniqueNumbers
    /\ [][/\ UniqueNumbers'
           /\ \A i \in DOMAIN orders :
                 /\ i \in DOMAIN orders'
                 /\ orders'[i].order_number = orders[i].order_number
          ]_vars

\* Two orders are stored, one of them created in this run, and a status update
\* has succeeded.
C19_Witness ==
    /\ Cardinality(DOMAIN orders) = 2
    /\ \E r \in Reqs : req[r].op = "create" /\ req[r].pc = "done" /\ req[r].result = "ok"
    /\ \E r \in Reqs : /\ req[r].op = "update" /\ req[r].pc = "done" /\ req[r].result = "ok"
                        /\ orders[req[r].id].status = req[r].to

\* The number the claim expects of six candidates: the first of the first five
\* that no stored order uses, and the sixth when all five are used.
ExpectedNumber(cands, used) ==
    LET free == {i \in 1..5 : cands[i] \notin used}
    IN IF free = {} THEN cands[6]
       ELSE cands[CHOOSE i \in free : \A k \in free : i <= k]

\* C20: generate_order_number tries up to 5 candidates and returns the first one
\* that no stored order uses; only when all 5 collide does it return a sixth,
\* unchecked candidate; the creation fails with an integrity error when the
\* number it inserts is in use, the unique constraint being the last check, and
\* a creation that fails this way persists no order.
C20_NumberGeneration ==
    [][\A r \in Reqs :
          /\ (req[r].op = "create" /\ req[r].pc = "begin" /\ req'[r].pc = "generated") =>
                /\ \A cands \in [1..6 -> Numbers] :
                      FirstFree(cands, UsedNumbers, 1) = ExpectedNumber(cands, UsedNumbers)
                /\ \E cands \in [1..6 -> Numbers] :
                      req'[r].number = ExpectedNumber(cands, UsedNumbers)
                /\ req'[r].number \in UsedNumbers =>
                      \E cands \in [1..6 -> Numbers] :
                          /\ \A i \in 1..5 : cands[i] \in UsedNumbers
                          /\ cands[6] = req'[r].number
          /\ (req[r].op = "create" /\ req[r].pc = "generated" /\ req'[r] # req[r]) =>
                IF req[r].number \in UsedNumbers
                THEN /\ req'[r].pc = "done" /\ req'[r].result = "IntegrityError"
                     /\ req'[r].txn = "rolledback" /\ req'[r].id = 0
                     /\ orders' = orders
                ELSE req'[r].pc = "written" /\ req'[r].result = "none"
      ]_vars

\* All five candidates and the sixth were in use, and the creation has failed
\* with the store as it was.
C20_Witness ==
    \E r \in Reqs :
        /\ req[r].op = "create" /\ req[r].pc = "done"
        /\ req[r].result = "IntegrityError" /\ req[r].txn = "rolledback"
        /\ req[r].number \in UsedNumbers
        /\ \A c \in 1..Len(commits) : commits[c].event # "created"

\* The last transaction that committed is the status update of handler r, and
\* the client has fetched that order since.
RefetchedAfterUpdate(r) ==
    /\ req[r].op = "update" /\ req[r].pc \in {"committed", "done"}
    /\ req[r].txn = "committed"
    /\ client.op = "get" /\ client.id = req[r].id /\ client.result = "ok"
    /\ client.at = Len(commits)

\* C21 as stated: after a successful update_order_status(id, s), get_order(id)
\* returns an order whose status is exactly s and whose updated_at is strictly
\* later than that order's updated_at before the update.
C21_UpdatedAtStrictlyLater ==
    \A r \in Reqs :
        RefetchedAfterUpdate(r) =>
            /\ client.order.status = req[r].to
            /\ client.order.updated_at > req[r].was

\* C21, amended: after a successful update_order_status(id, s) and no other
\* write to the order, get_order(id) returns an order whose status is exactly s
\* and whose updated_at is the clock reading taken when the update saved the
\* order, whatever the order's updated_at was before.
C21_RefetchReflectsUpdate ==
    \A r \in Reqs :
        RefetchedAfterUpdate(r) =>
            /\ client.order.status = req[r].to
            /\ client.order.updated_at = req[r].now
            /\ client.order = orders[req[r].id]

\* An update saved at a later clock reading than the one before it, fetched again.
C21_Witness ==
    \E r \in Reqs :
        /\ RefetchedAfterUpdate(r)
        /\ client.order.status = req[r].to
        /\ req[r].seen # req[r].to
        /\ client.order.updated_at > req[r].was

\* C22: PATCH /orders/{id}/status/ answers 200 with the updated order when the
\* transition is allowed, 404 with code NOT_FOUND when no order has that id, 409
\* with code INVALID_STATE when the transition is not allowed, and 422 when the
\* status value is not one of the five recognised values; GET /orders/{id}/
\* answers 404 when no order has that id. Each answer is fixed by the step that
\* decides it, against the store as it is at that step.
C22_StatusCodes ==
    [][ /\ \A r \in Reqs :
              LET answer == Response("update", req'[r].result)
                  id == req'[r].id
              IN /\ (req[r].pc \in {"idle", "done"} /\ req'[r] # req[r]
                       /\ req'[r].op = "update") =>
                       (req'[r].to \notin OrderStatus <=>
                          (req'[r].pc = "done" /\ answer = [status |-> 422, code |-> "none"]))
                 /\ (req[r].op = "update" /\ req[r].pc = "begin" /\ req'[r] # req[r]) =>
                       (id \notin DOMAIN orders <=>
                          (req'[r].pc = "done"
                             /\ answer = [status |-> 404, code |-> "NOT_FOUND"]))
                 /\ (req[r].op = "update" /\ req[r].pc = "locked" /\ req'[r] # req[r]) =>
                       (req[r].to \notin TransitionTable[orders[id].status] <=>
                          (req'[r].pc = "done"
                             /\ answer = [status |-> 409, code |-> "INVALID_STATE"]))
                 /\ (req[r].op = "update" /\ req[r].pc = "committed" /\ req'[r] # req[r]) =>
                       /\ req'[r].pc = "done"
                       /\ answer = [status |-> 200, code |-> "none"]
                       /\ req[r].to \in TransitionTable[req[r].seen]
                       /\ orders[id].status = req[r].to
        /\ (client' # client /\ client'.op = "get") =>
              IF client'.id \in DOMAIN orders
              THEN Response("get", client'.result) = [status |-> 200, code |-> "none"]
              ELSE Response("get", client'.result) = [status |-> 404, code |-> "NOT_FOUND"]]_vars

\* An update answered 409 beside a fetch answered 404.
C22_Witness ==
    /\ \E r \in Reqs :
          /\ req[r].op = "update" /\ req[r].pc = "done"
          /\ Response("update", req[r].result) = [status |-> 409, code |-> "INVALID_STATE"]
    /\ client.op = "get"
    /\ Response("get", client.result) = [status |-> 404, code |-> "NOT_FOUND"]

\* The client holds a listing whose two queries saw the store as it is now.
Listed ==
    /\ client.op = "list" /\ client.pc = "done" /\ client.result = "ok"
    /\ client.at = Len(commits)

Min(a, b) == IF a <= b THEN a ELSE b

\* ceil(n / p)
Ceil(n, p) == (n + p - 1) \div p

\* C23: for a store of N orders, no status filter, page size P >= 1 and page
\* number k >= 1, get_orders returns exactly min(P, N - (k-1)*P) items for every
\* k <= ceil(N/P) and no items for any later page, and the returned total is N
\* for every page.
C23_PageSizes ==
    (Listed /\ client.status = None) =>
        LET N == Cardinality(DOMAIN orders)
            P == client.page_size
            k == client.page
        IN /\ P >= 1 /\ k >= 1
           /\ client.total = N
           /\ Len(client.items) =
                 IF k <= Ceil(N, P) THEN Min(P, N - (k - 1) * P) ELSE 0

\* The second and last page of two orders, one to a page.
C23_Witness ==
    /\ Listed /\ client.status = None
    /\ Cardinality(DOMAIN orders) = 2
    /\ client.page_size = 1 /\ client.page = 2
    /\ Len(client.items) = 1 /\ client.total = 2

\* C24: for every status filter value supplied to the order listing that is not
\* one of pending, confirmed, shipped, delivered, cancelled, the listing fails
\* with a validation error (code VALIDATION_ERROR) and returns no items.
C24_UnknownFilterRejected ==
    ( /\ client.op = "list" /\ client.pc = "done"
      /\ list_orders_query(client.page, client.page_size)
      /\ client.status # None /\ client.status \notin OrderStatus ) =>
        /\ Response("list", client.result) = [status |-> 400, code |-> "VALIDATION_ERROR"]
        /\ client.items = <<>>

\* C25: for every recognised status s, get_orders(status=s) returns only orders
\* whose status is exactly s, and the returned total equals the number of stored
\* orders whose status is s.
C25_FilterByStatus ==
    (Listed /\ client.status \in OrderStatus) =>
        /\ \A k \in 1..Len(client.items) :
              /\ client.items[k] \in DOMAIN orders
              /\ orders[client.items[k]].status = client.status
        /\ client.total =
              Cardinality({i \in DOMAIN orders : orders[i].status = client.status})

\* A listing by status of a store that also holds an order with another status.
C25_Witness ==
    /\ Listed /\ client.status \in OrderStatus
    /\ client.items # <<>>
    /\ \E i \in DOMAIN orders : orders[i].status # client.status
    /\ client.total = 1

Items(page) == {page.items[k] : k \in 1..Len(page.items)}

\* The client has listed two different pages, one after the other, with one
\* page size and one filter, of a store that did not change meanwhile.
TwoPages == Listed /\ client.prev.page >= 1 /\ client.prev.page # client.page

\* C26: the order listing is ordered most-recent-first by creation time and the
\* ordering is stable: for an unchanged store, the pages 1..ceil(N/P) taken
\* together contain every matching order exactly once (no order is repeated or
\* omitted across pages), also when several orders have the same creation time.
C26_StablePages ==
    /\ Listed =>
          \A j, k \in 1..Len(client.items) :
              j < k => orders[client.items[j]].created_at
                          >= orders[client.items[k]].created_at
    /\ TwoPages =>
          LET matching == filter(orders, client.status)
              last == Ceil(Cardinality(matching), client.page_size)
          IN /\ Items(client.prev) \cap Items(client) = {}
             /\ {client.prev.page, client.page} = 1..last =>
                   Items(client.prev) \cup Items(client) = matching

\* C27: in every reachable state every stored order created through the
\* creation request has quantity >= 1 and price >= 0; a creation request with
\* quantity < 1 or price < 0 is rejected (422) and persists no order and
\* enqueues no job.
C27_QuantityAndPrice ==
    /\ \A i \in DOMAIN orders : orders[i].quantity >= 1 /\ orders[i].price >= 0
    /\ \A r \in Reqs :
          (req[r].op = "create" /\ (req[r].data.quantity < 1 \/ req[r].data.price < 0)) =>
              /\ req[r].pc = "done"
              /\ Response("create", req[r].result) = [status |-> 422, code |-> "none"]
              /\ req[r].id = 0 /\ req[r].txn = "none"
              /\ req[r].hooks = <<>> /\ req[r].enq = <<>>
    /\ \A k \in 1..Len(enqueued) : \E c \in 1..Len(commits) : commits[c] = enqueued[k]

\* A creation with quantity 0 has been refused beside one that stored its order.
C27_Witness ==
    \E r, x \in Reqs :
        /\ req[r].op = "create" /\ req[r].data.quantity < 1 /\ req[r].pc = "done"
        /\ req[x].op = "create" /\ req[x].result = "ok"
        /\ req[x].id \in DOMAIN orders

\* C28: no operation of the core removes an order: the set of stored order ids
\* only grows, so once get_order(id) has succeeded it succeeds in every later
\* state. get_order(id) succeeds exactly when id is stored, and an id whose
\* fetch has succeeded is stored after every later step.
C28_NeverRemoved ==
    [][ /\ DOMAIN orders \subseteq DOMAIN orders'
        /\ (client' # client /\ client'.op = "get") =>
              (client'.result = "ok" <=> client'.id \in DOMAIN orders)
        /\ (client.op = "get" /\ client.result = "ok") => client.id \in DOMAIN orders'
      ]_vars

\* An order fetched with success and cancelled afterwards.
C28_Witness ==
    /\ client.op = "get" /\ client.result = "ok"
    /\ client.id \in DOMAIN orders
    /\ client.order.status # "cancelled"
    /\ orders[client.id].status = "cancelled"

\* C29: the health check reports store, cache and queue-broker reachability as
\* three independent results (a failure of one check neither skips nor changes
\* the other two), and the overall status is "healthy" with HTTP 200 if and only
\* if all three checks succeed; otherwise it is "unhealthy" with HTTP 503.
C29_HealthCheck ==
    client.op = "health" =>
        LET h == client.health
            up == client.probe
            mark(ok) == IF ok THEN "ok" ELSE "error"
        IN /\ h.database = mark(up.database)
           /\ h.redis = mark(up.redis)
           /\ h.rabbitmq = mark(up.rabbitmq)
           /\ IF up.database /\ up.redis /\ up.rabbitmq
              THEN h.status = "healthy" /\ h.status_code = 200
              ELSE h.status = "unhealthy" /\ h.status_code = 503

\* The store is down and the broker is down, the cache is up: each is reported.
C29_Witness ==
    /\ client.op = "health"
    /\ ~client.probe.database /\ client.probe.redis /\ ~client.probe.rabbitmq
    /\ client.health.database = "error" /\ client.health.redis = "ok"
    /\ client.health.rabbitmq = "error"
    /\ client.health.status_code = 503

\* The columns of an order other than status and updated_at.
Frame(row) ==
    <<row.order_number, row.customer_name, row.product_name, row.quantity,
      row.price, row.created_at>>

\* C30: a successful update_order_status changes only the status and updated_at
\* of the target order: its id, order_number, customer_name, product_name,
\* quantity, price and created_at are unchanged, and every other stored order is
\* unchanged in every field. The store changes at the commit of the update and
\* at no other step of it.
C30_UpdateFrame ==
    [][\A r \in Reqs :
          (req[r].op = "update" /\ req'[r] # req[r] /\ req'[r].op = "update"
             /\ req[r].pc \notin {"idle", "done"}) =>
              IF req[r].pc = "written"
              THEN /\ DOMAIN orders' = DOMAIN orders
                   /\ req[r].id \in DOMAIN orders
                   /\ \A i \in DOMAIN orders \ {req[r].id} : orders'[i] = orders[i]
                   /\ Frame(orders'[req[r].id]) = Frame(orders[req[r].id])
                   /\ orders'[req[r].id].status = req[r].to
              ELSE orders' = orders
      ]_vars

\* An update has committed, later than the order was created, beside another order.
C30_Witness ==
    \E r \in Reqs :
        /\ req[r].op = "update" /\ req[r].txn = "committed"
        /\ Cardinality(DOMAIN orders) = 2
        /\ orders[req[r].id].status = req[r].to
        /\ orders[req[r].id].updated_at > orders[req[r].id].created_at

\* C31: a status update checks, in this order: that the requested status is a
\* recognised value (else a validation error), that the order exists (else
\* NotFoundError), that the transition is allowed (else InvalidStateError);
\* hence an unrecognised status yields a validation error even when the order
\* does not exist, and a recognised status on a missing order yields
\* NotFoundError whatever the requested status.
C31_OrderOfChecks ==
    [][\A r \in Reqs :
          /\ (req[r].pc \in {"idle", "done"} /\ req'[r] # req[r]
                /\ req'[r].op = "update") =>
                IF req'[r].to \notin OrderStatus
                THEN /\ req'[r].pc = "done" /\ req'[r].result = "ValidationError"
                     /\ req'[r].txn = "none"
                ELSE req'[r].pc = "begin" /\ req'[r].result = "none"
          /\ (req[r].op = "update" /\ req[r].pc = "begin" /\ req'[r] # req[r]) =>
                /\ req[r].to \in OrderStatus
                /\ IF req[r].id \notin DOMAIN orders
                   THEN /\ req'[r].pc = "done" /\ req'[r].result = "NotFoundError"
                        /\ req'[r].seen = "none"
                   ELSE req'[r].pc = "locked" /\ req'[r].result = "none"
          /\ (req[r].op = "update" /\ req[r].pc = "locked" /\ req'[r] # req[r]) =>
                /\ req[r].to \in OrderStatus /\ req[r].id \in DOMAIN orders
                /\ req'[r].result \in {"none", "InvalidStateError"}
      ]_vars

\* An unrecognised status for a missing order has been refused as invalid,
\* beside a recognised status for a missing order refused as not found.
C31_Witness ==
    \E r, x \in Reqs :
        /\ req[r].op = "update" /\ req[r].id = UnknownId
        /\ req[r].to \notin OrderStatus /\ req[r].result = "ValidationError"
        /\ req[x].op = "update" /\ req[x].id \notin DOMAIN orders
        /\ req[x].to \in OrderStatus /\ req[x].result = "NotFoundError"

\* The statuses the transition table leads to from s, s among them.
Reachable(s) ==
    LET more(S) == S \cup UNION {TransitionTable[x] : x \in S}
    IN more(more(more({s})))

\* C32: the notification payload is rendered from the order as re-read at
\* dispatch time, not from the state at enqueue time: the status shown by a job
\* is the order's committed status at the moment the job runs, which is either
\* the status written by the transaction that enqueued the job or a status
\* reachable from it through the transition table.
C32_PayloadAtDispatch ==
    [][\A j \in queue :
          (j \notin queue' /\ lastOutcome'.jid = j.jid
             /\ lastOutcome'.attempt_posts = 1) =>
              /\ j.order_id \in DOMAIN orders
              /\ lastOutcome'.payload.status = upper(orders[j.order_id].status)
              /\ lastOutcome'.payload.color = STATUS_COLORS(orders[j.order_id].status)
              /\ lastOutcome'.payload.order_number = orders[j.order_id].order_number
              /\ orders[j.order_id].status \in Reachable(j.wrote)
      ]_vars

\* The job of a creation has shown a status other than pending.
C32_Witness ==
    /\ lastOutcome.event = "created" /\ lastOutcome.attempt_posts = 1
    /\ lastOutcome.payload.status \notin {"PENDING", "none"}

\* C33: an update_order_status call that fails (NotFoundError or
\* InvalidStateError) leaves the store unchanged: no order's status, updated_at
\* or any other field differs from before the call, and the set of orders is
\* the same. A failing call is made of the steps up to the lookup or up to the
\* transition check; none of them changes a row, and the call ends rolled back,
\* holding no lock and having enqueued nothing.
C33_FailedUpdateChangesNothing ==
    [][\A r \in Reqs :
          (req'[r] # req[r] /\ req'[r].op = "update"
             /\ req'[r].pc \in {"begin", "locked", "done"}
             /\ req[r].pc \in {"idle", "done", "begin", "locked"}) =>
              /\ orders' = orders
              /\ req'[r].result \in {"NotFoundError", "InvalidStateError"} =>
                    /\ req'[r].pc = "done" /\ req'[r].txn = "rolledback"
                    /\ \A i \in OrderIds : r \notin lock'[i]
                    /\ queue' = queue /\ enqueued' = enqueued
                    /\ commits' = commits
      ]_vars

\* An update has been refused for a transition the table does not allow, on an
\* order that is stored, after the clock has moved.
C33_Witness ==
    \E r \in Reqs :
        /\ req[r].op = "update" /\ req[r].result = "InvalidStateError"
        /\ req[r].id \in DOMAIN orders
        /\ orders[req[r].id].status = req[r].seen
        /\ clock > orders[req[r].id].updated_at

\* C34: no status is in its own allowed-transition list, so an update whose
\* target equals the order's current status is always rejected with an
\* invalid-state error and changes nothing: it never gets past the check under
\* the row lock, where the row still has the status it read, and it ends rolled
\* back with no callback registered and no job.
C34_SameStatusRejected ==
    /\ \A s \in OrderStatus : s \notin VALID_TRANSITIONS(s)
    /\ \A r \in Reqs :
          (req[r].op = "update" /\ req[r].seen # "none" /\ req[r].to = req[r].seen) =>
              /\ req[r].pc \in {"locked", "done"}
              /\ req[r].pc = "locked" =>
                    /\ orders[req[r].id].status = req[r].seen
                    /\ req[r].result = "none"
              /\ req[r].pc = "done" =>
                    /\ req[r].result = "InvalidStateError"
                    /\ req[r].txn = "rolledback"
                    /\ req[r].hooks = <<>> /\ req[r].enq = <<>>

\* An update has succeeded and its repetition has been refused: the order has
\* the status both asked for and one job was enqueued for it.
C34_Witness ==
    \E r, x \in Reqs :
        /\ r # x
        /\ req[r].op = "update" /\ req[r].result = "ok"
        /\ req[x].op = "update" /\ req[x].result = "InvalidStateError"
        /\ req[x].id = req[r].id /\ req[x].to = req[r].to
        /\ req[x].seen = req[r].to
        /\ orders[req[r].id].status = req[r].to
        /\ Count(enqueued, Job(req[r].id, "status_updated")) = 1

\* How far a status is from pending along the table: every edge of the table
\* goes to a higher rank.
Rank(s) ==
    CASE s = "pending" -> 0
      [] s = "confirmed" -> 1
      [] s = "shipped" -> 2
      [] OTHER -> 3

\* C35: the transition table is acyclic, so along any sequence of operations an
\* order never returns to a status it has left, at most 3 status updates ever
\* succeed on one order, and at most 4 notification jobs (1 created + at most 3
\* status_updated) are ever enqueued for one order. Every edge of the table and
\* every change of a stored status raises the rank, and the updates committed
\* for an order number at most the rank of its status.
C35_NoReturn ==
    /\ \A s \in OrderStatus : \A t \in VALID_TRANSITIONS(s) : Rank(t) > Rank(s)
    /\ [][\A i \in DOMAIN orders \cap DOMAIN orders' :
             orders'[i].status # orders[i].status =>
                 Rank(orders'[i].status) > Rank(orders[i].status)]_vars
    /\ [](\A i \in DOMAIN orders :
             /\ Count(commits, Job(i, "status_updated")) <= Rank(orders[i].status)
             /\ Count(commits, Job(i, "status_updated")) <= 3
             /\ Count(enqueued, Job(i, "status_updated")) <= 3
             /\ Count(enqueued, Job(i, "created")) <= 1
             /\ Count(enqueued, Job(i, "created"))
                  + Count(enqueued, Job(i, "status_updated")) <= 4)

\* C36 as stated: because a job is enqueued only after its order's transaction
\* has committed and the core exposes no delete, the outcome "order_not_found"
\* is unreachable for a job enqueued by create_order or update_order_status:
\* whenever such a job runs with notifications enabled and configured, its
\* order lookup succeeds.
C36_NotFoundUnreachable ==
    [][\A j \in queue :
          (j \notin queue' /\ ConfigOK) =>
              /\ j.order_id \in DOMAIN orders
              /\ lastOutcome'.reason # "order_not_found"
      ]_vars

\* C36, amended: a job is put on the queue only after its order's transaction
\* has committed, which stored the order; a stored order disappears only
\* in a step outside the core (the delete view of the admin site), which moves
\* no call, commit, job or outcome; and a job that runs with notifications
\* enabled and configured ends with "order_not_found" exactly when its order
\* is no longer stored, and finds it by one lookup otherwise.
C36_NotFoundOnlyAfterDelete ==
    /\ [](\A j \in queue : Count(commits, Job(j.order_id, j.event)) >= 1)
    /\ [][/\ Len(commits') > Len(commits) =>
                commits'[Len(commits')].order_id \in DOMAIN orders'
          /\ (\E i \in DOMAIN orders : i \notin DOMAIN orders') =>
                /\ UNCHANGED <<lock, req, calls, commits, enqueued, queue,
                               config, lastOutcome, clock, client>>
                /\ \A i \in DOMAIN orders' : orders'[i] = orders[i]
          /\ \A j \in queue :
                (j \notin queue' /\ ConfigOK) =>
                    /\ lastOutcome'.jid = j.jid
                    /\ (lastOutcome'.reason = "order_not_found")
                         <=> (j.order_id \notin DOMAIN orders)
                    /\ j.order_id \in DOMAIN orders => lastOutcome'.lookups = 1
         ]_vars

\* The job of a committed status update has run, enabled and configured, after
\* its order was deleted, and another has run and found its order.
C36_Witness ==
    /\ ConfigOK
    /\ lastOutcome.event = "status_updated"
    /\ lastOutcome.reason = "order_not_found"
    /\ lastOutcome.order_id \notin DOMAIN orders
    /\ Count(commits, Job(lastOutcome.order_id, "status_updated")) >= 1

\* C37: when two create_order calls run concurrently and both pass the
\* existence check of generate_order_number with the same candidate, at most
\* one of them persists an order with that number: the other fails with an
\* integrity error (answered 400 INTEGRITY_ERROR), its transaction is rolled
\* back, it persists no order and enqueues no notification job, and
\* order_number uniqueness still holds. No two open transactions have inserted
\* the same number and none has inserted a stored one (the second INSERT
\* waits); a call that ended with the integrity error has no row, no callback
\* and no job, and its number is stored by another order.
C37_DuplicateCandidate ==
    /\ \A i, k \in DOMAIN orders :
          orders[i].order_number = orders[k].order_number => i = k
    /\ \A r \in Reqs :
          req[r].result = "IntegrityError" =>
              /\ req[r].op = "create" /\ req[r].pc = "done"
              /\ req[r].txn = "rolledback" /\ req[r].id = 0
              /\ req[r].hooks = <<>> /\ req[r].enq = <<>>
              /\ req[r].number \in UsedNumbers
              /\ Response(req[r].op, req[r].result).status = 400
              /\ Response(req[r].op, req[r].result).code = "INTEGRITY_ERROR"
    /\ \A r \in Reqs :
          (req[r].op = "create" /\ req[r].pc = "written") =>
              /\ req[r].number \notin UsedNumbers
              /\ req[r].id \notin DOMAIN orders
              /\ \A x \in Reqs \ {r} :
                    (req[x].op = "create" /\ req[x].pc = "written") =>
                        req[x].number # req[r].number
    /\ \A r \in Reqs :
          (req[r].op = "create" /\ req[r].pc \in {"committed", "done"}
             /\ req[r].txn = "committed") =>
              /\ req[r].id \in DOMAIN orders
              /\ orders[req[r].id].order_number = req[r].number

\* Both calls were creations that drew the same number: one has stored its
\* order and enqueued its job, the other has ended with the integrity error,
\* and the store holds that number once and the queue log that one job.
C37_Witness ==
    \E r, x \in Reqs :
        /\ r # x
        /\ req[r].op = "create" /\ req[x].op = "create"
        /\ req[r].number = req[x].number
        /\ req[r].result = "IntegrityError"
        /\ req[x].result = "ok" /\ req[x].pc = "done"
        /\ req[x].id \in DOMAIN orders
        /\ orders[req[x].id].order_number = req[x].number
        /\ Cardinality({i \in DOMAIN orders : orders[i].order_number = req[r].number}) = 1
        /\ enqueued = <<Job(req[x].id, "created")>>

\* C38: only exceptions of the transport error family (httpx.HTTPError, which
\* includes non-2xx status errors and the error raised for retriable provider
\* codes) trigger a retry of a notification job; any other exception raised
\* during dispatch, such as a 2xx response whose body cannot be parsed as the
\* expected JSON object, fails the job at once without any retry, whatever
\* retries it has left. Of the last run: its job is back on the queue exactly
\* when it raised an HTTPError with retries left.
C38_OnlyTransportErrorsRetry ==
    lastOutcome.jid # 0 =>
        LET out == lastOutcome IN
        /\ out.requeued <=> InQueue(out.jid)
        /\ out.requeued <=> (out.raised = "HTTPError" /\ out.retries < max_retries)
        /\ out.raised = "HTTPError" <=>
              out.resp \in {"network_error", "non_2xx", "ratelimited", "no_error_field"}
        /\ out.raised = "ValueError" <=> out.resp = "bad_body"
        /\ out.raised \notin {"none", "HTTPError"} =>
              /\ out.status = "failed"
              /\ out.attempt_posts = 1
              /\ ~InQueue(out.jid)

\* A job that was retried once after a transport error has met a 2xx body
\* that is no JSON on its second run and failed there, with two retries left.
C38_Witness ==
    /\ lastOutcome.resp = "bad_body" /\ lastOutcome.raised = "ValueError"
    /\ lastOutcome.status = "failed" /\ ~lastOutcome.requeued
    /\ lastOutcome.retries = 1 /\ lastOutcome.posts = 2
    /\ ~InQueue(lastOutcome.jid)

\* Committed changes that have no job and whose callback is not waiting to run.
Unannounced ==
    Len(commits) - Len(enqueued)
      - Cardinality({r \in Reqs : req[r].pc = "committed"})

\* C39: if enqueueing the notification job fails after the transaction has
\* committed (for example the broker is unreachable), the order insert or
\* status change stays committed and is not undone: the only way a committed
\* change ends with no enqueued job is a failure between commit and enqueue,
\* and such a failure never un-commits or alters the stored order.
C39_EnqueueFailureKeepsCommit ==
    /\ [](Unannounced >= 0)
    /\ [][/\ Unannounced' # Unannounced =>
                \E r \in Reqs :
                    /\ req[r].pc = "committed" /\ req'[r].pc = "done"
                    /\ req'[r].result = "OperationalError"
                    /\ Unannounced' = Unannounced + 1
          /\ \A r \in Reqs :
                (req[r].pc = "committed" /\ req'[r].result = "OperationalError") =>
                    /\ orders' = orders /\ commits' = commits
                    /\ enqueued' = enqueued /\ queue' = queue
                    /\ req[r].id \in DOMAIN orders'
                    /\ req'[r].txn = "committed"
          /\ \A r \in Reqs :
                (req[r].pc = "committed" /\ req'[r].pc = "done"
                   /\ req'[r].result = "ok") =>
                    Len(enqueued') = Len(enqueued) + 1
         ]_vars

\* A creation has committed, its publish has failed, and its order is stored
\* as pending with no job for it.
C39_Witness ==
    \E r \in Reqs :
        /\ req[r].op = "create" /\ req[r].pc = "done"
        /\ req[r].txn = "committed" /\ req[r].result = "OperationalError"
        /\ req[r].id \in DOMAIN orders
        /\ orders[req[r].id].status = "pending"
        /\ orders[req[r].id].order_number = req[r].number
        /\ Count(commits, Job(req[r].id, "created")) = 1
        /\ Count(enqueued, Job(req[r].id, "created")) = 0
        /\ Unannounced = 1

====
